---------------------------- MODULE Spec2Model ----------------------------
(***************************************************************************)
(* A model of the BotMind Telegram bot: the webhook, the command, text and *)
(* photo handlers of the two webhook implementations (src/simple_app.py,   *)
(* hand-rolled against the HTTP API, and src/app.py, written against the   *)
(* bot framework), the three service adapters as far as the handlers see   *)
(* them, the BotStatus counters and the temporary files on disk.           *)
(*                                                                         *)
(* Every request is a thread of control (a server thread in simple_app.py, *)
(* an asyncio task in app.py) with a program counter; remote calls are     *)
(* steps whose outcome is chosen by the environment.                       *)
(*                                                                         *)
(* The adapters' own routines (their behaviour without a credential, the   *)
(* image compression loop, the safe-search formatting) are called directly *)
(* in a second specification, SpecSvc.                                     *)
(***************************************************************************)
EXTENDS Integers, Sequences, FiniteSets, TLC

VARIABLES
    cfg,         \* process configuration, fixed at start-up
    bot_status,  \* the BotStatus counters and last_update
    files,       \* the temporary files that exist on disk
    received,    \* the number of webhook calls received so far
    th,          \* each request thread's locals and program counter
    cpu,         \* app.py: the task running between two awaits ("none": none)
    incOps,      \* per counter, the number of += 1 statements completed
    svc          \* the adapter routine called directly, and what it gave

vars == <<cfg, bot_status, files, received, th, cpu, incOps, svc>>

\* The number of webhook calls one run of the model receives.
MaxUpdates == 2

Threads == {"t1", "t2"}

Impls == {"simple", "app"}

Counters == {"messages_processed", "images_processed", "errors"}

-----------------------------------------------------------------------------
(* Captions: strings as sequences of characters.                          *)

\* str.lower() on the characters the captions use.
LowerChar(c) ==
    CASE c = "R" -> "r" [] c = "E" -> "e" [] c = "M" -> "m" [] c = "O" -> "o"
      [] c = "V" -> "v" [] c = "B" -> "b" [] c = "A" -> "a" [] c = "C" -> "c"
      [] c = "K" -> "k" [] c = "G" -> "g" [] c = "U" -> "u" [] c = "N" -> "n"
      [] c = "D" -> "d" [] OTHER -> c

Lower(s) == [i \in 1..Len(s) |-> LowerChar(s[i])]

\* Python's `p in s` on strings.
Contains(s, p) ==
    \E i \in 1..(Len(s) - Len(p) + 1) : SubSeq(s, i, i + Len(p) - 1) = p

Phrase == <<"r","e","m","o","v","e"," ","b","a","c","k","g","r","o","u","n","d">>

\* The captions a photo update may carry; "none" is a photo without caption.
CaptionIds == {"none", "other", "mixed", "embedded", "split"}

CaptionText(c) ==
    CASE c = "none"     -> <<>>
      [] c = "other"    -> <<"b","a","c","k","g","r","o","u","n","d">>
      [] c = "mixed"    -> <<"R","e","m","o","v","e"," ","B","A","C","K","G","R","O","U","N","D">>
      [] c = "embedded" -> <<"p","l","s"," ">> \o Phrase \o <<" ","n","o","w">>
      [] c = "split"    -> <<"r","e","m","o","v","e"," "," ","b","a","c","k","g","r","o","u","n","d">>

\* Mutant: the caption is matched without lower-casing it.
RemoveBgRequestedCaseSensitive(caption) ==
    Len(caption) > 0 /\ Contains(caption, Phrase)

\* remove_bg: simple_app.py `caption and "remove background" in caption.lower()`,
\* app.py `"remove background" in (caption or "").lower()`.
RemoveBgRequested(caption) ==
    Len(caption) > 0 /\ Contains(Lower(caption), Phrase)

-----------------------------------------------------------------------------
(* Updates.                                                                *)

FileIds == {"f1", "f2"}

\* kind: what the update JSON holds.
\*   "empty"      no body (request.get_json() is falsy)
\*   "malformed"  a message without chat / message_id
\*   "nomessage"  an update without "message", or a message with neither
\*                text nor photo
\*   "start", "help", "status", "unknowncmd"  text starting with "/"
\*   "text"       any other text
\*   "photo"      a message with a photo and no text
CommandKinds == {"start", "help", "status", "unknowncmd"}

Updates ==
    [kind : {"empty", "malformed", "nomessage", "text"} \cup CommandKinds,
     caption : {"none"}, fid : {"f1"}]
    \cup [kind : {"photo"}, caption : CaptionIds, fid : FileIds]

TempPath(fid) == <<"temp", fid>>

ProcessedPath(fid) == <<"processed", fid>>

-----------------------------------------------------------------------------
(* Thread locals.                                                          *)

NoCalls == [dl |-> 0, vision |-> 0, gemini |-> 0, bg |-> 0, gen |-> 0]

Idle ==
    [pc |-> "idle", kind |-> "empty", caption |-> "none", fid |-> "f1",
     remove_bg |-> FALSE, parts |-> <<>>, sends |-> <<>>, calls |-> NoCalls,
     res |-> [vision |-> "none", gemini |-> "none", bg |-> "none", gen |-> "none"],
     downloaded |-> FALSE, image_path |-> <<>>, processed |-> <<>>,
     exit |-> "none", resp |-> 0, reg |-> 0, ctr |-> "errors", ret |-> "idle",
     mp0 |-> 0, ip0 |-> 0, err0 |-> 0, lu0 |-> 0, caught |-> 0]

Simple == cfg.impl = "simple"

\* app.py: between two awaits a task keeps the event loop; simple_app.py:
\* server threads are preempted anywhere.
Hold(t) == IF Simple THEN "none" ELSE t

MayRun(t) == cpu \in {"none", t}

\* Where a handler returns to: simple_app.py's webhook goes on at line 285;
\* in app.py the task ends.
HandlerReturn == IF Simple THEN "wh_finish" ELSE "done"

\* Outcome of one outbound call to the messaging platform.
SendOutcomes == {"ok", "fail"}

Sent(r, type, body, o) ==
    Append(r.sends, [type |-> type, body |-> body, ok |-> (o = "ok")])

-----------------------------------------------------------------------------
(* Start-up.                                                               *)

\* last_update holds datetime.utcnow(): every assignment stores a later
\* value, so it is modelled by the number of assignments made.
InitStatus ==
    [messages_processed |-> 0, images_processed |-> 0, errors |-> 0,
     last_update |-> 0]

\* No adapter routine has been called directly.
NoCall == [fn |-> "none", done |-> TRUE]

Configs ==
    [impl : Impls, token : BOOLEAN, gemini : BOOLEAN, vision : BOOLEAN,
     background : BOOLEAN, loop : BOOLEAN, threaded : BOOLEAN]

InitCommon ==
    /\ cfg \in Configs
    /\ (cfg.impl = "simple" => ~cfg.loop)
    /\ bot_status = InitStatus
    /\ files = {}
    /\ received = 0
    /\ th = [t \in Threads |-> Idle]
    /\ cpu = "none"
    /\ incOps = [c \in Counters |-> 0]
    /\ svc = NoCall

\* One request at a time.
Init == InitCommon /\ ~cfg.threaded

\* Requests handled concurrently (Flask's threaded server for simple_app.py,
\* overlapping tasks for app.py), in a deployment with the bot token, the
\* generative-AI key and the background-removal key set and no
\* image-annotation key, and for app.py an event loop to run the tasks.
InitConc ==
    /\ InitCommon
    /\ cfg.threaded
    /\ cfg.token /\ cfg.gemini /\ ~cfg.vision /\ cfg.background
    /\ (cfg.impl = "app" => cfg.loop)

-----------------------------------------------------------------------------
(* The webhook.                                                            *)

Admit(t) ==
    /\ th[t].pc = "idle"
    /\ received < MaxUpdates
    /\ MayRun(t)
    /\ cfg.threaded \/ \A s \in Threads : th[s].pc = "idle"

Fresh(u) ==
    [Idle EXCEPT !.kind = u.kind, !.caption = u.caption, !.fid = u.fid,
                 !.mp0 = bot_status.messages_processed,
                 !.ip0 = bot_status.images_processed,
                 !.err0 = bot_status.errors,
                 !.lu0 = bot_status.last_update]

\* A rejected request is counted as an error.
WebhookRejectCounted(t) ==
    /\ Admit(t)
    /\ \E u \in Updates :
         /\ ~cfg.token \/ u.kind = "empty"
         /\ th' = [th EXCEPT ![t] =
               [Fresh(u) EXCEPT !.pc = "done",
                                !.resp = IF ~cfg.token THEN 500 ELSE 400]]
    /\ received' = received + 1
    /\ bot_status' = [bot_status EXCEPT !.errors = @ + 1]
    /\ UNCHANGED <<cfg, svc, files, cpu, incOps>>

\* simple_app.py 245-252, app.py 219-226: no token (no application) answers
\* 500, an empty body 400; nothing else happens.
WebhookReject(t) ==
    /\ Admit(t)
    /\ \E u \in Updates :
         /\ ~cfg.token \/ u.kind = "empty"
         /\ th' = [th EXCEPT ![t] =
               [Fresh(u) EXCEPT !.pc = "done",
                                !.resp = IF ~cfg.token THEN 500 ELSE 400]]
    /\ received' = received + 1
    /\ UNCHANGED <<cfg, svc, bot_status, files, cpu, incOps>>

\* simple_app.py 257-283: the if / elif chain of the webhook.
SimpleRoute(kind) ==
    CASE kind = "malformed" -> "wh_except"
      [] kind \in CommandKinds -> "cmd"
      [] kind = "text" -> "text"
      [] kind = "photo" -> "photo"
      [] OTHER -> "wh_finish"

\* app.py 203-207: the handlers registered with the framework; an update no
\* handler matches is dropped.
AppRoute(kind) ==
    CASE kind \in CommandKinds \ {"unknowncmd"} -> "cmd"
      [] kind = "text" -> "text"
      [] kind = "photo" -> "photo"
      [] OTHER -> "done"

\* simple_app.py 254-283: the update is handled in the request's own thread.
WebhookSimple(t) ==
    /\ Admit(t)
    /\ Simple /\ cfg.token
    /\ \E u \in Updates :
         /\ u.kind # "empty"
         /\ th' = [th EXCEPT ![t] = [Fresh(u) EXCEPT !.pc = SimpleRoute(u.kind)]]
    /\ received' = received + 1
    /\ UNCHANGED <<cfg, svc, bot_status, files, cpu, incOps>>

\* app.py 229-235: the update is parsed and handed to the framework as a task;
\* asyncio.create_task raises when the calling thread runs no event loop, and
\* Update.de_json raises on a message without chat.
WebhookApp(t) ==
    /\ Admit(t)
    /\ ~Simple /\ cfg.token
    /\ \E u \in Updates :
         /\ u.kind # "empty"
         /\ IF u.kind = "malformed" \/ ~cfg.loop
            THEN /\ th' = [th EXCEPT ![t] = [Fresh(u) EXCEPT !.pc = "wh_except"]]
                 /\ UNCHANGED bot_status
            ELSE /\ th' = [th EXCEPT ![t] =
                       [Fresh(u) EXCEPT !.pc = AppRoute(u.kind), !.resp = 200]]
                 /\ bot_status' = [bot_status EXCEPT !.last_update = @ + 1]
    /\ received' = received + 1
    /\ UNCHANGED <<cfg, svc, files, cpu, incOps>>

\* simple_app.py 288-291, app.py 237-240: the webhook's except clause.
WebhookExcept(t) ==
    /\ th[t].pc = "wh_except"
    /\ MayRun(t)
    /\ th' = [th EXCEPT ![t] =
          [@ EXCEPT !.pc = "inc_read", !.ctr = "errors", !.ret = "done",
                    !.resp = 500, !.caught = @ + 1]]
    /\ cpu' = Hold(t)
    /\ UNCHANGED <<cfg, svc, bot_status, files, received, incOps>>

\* simple_app.py 285-286: after the handler, last_update and the answer.
WebhookFinish(t) ==
    /\ th[t].pc = "wh_finish"
    /\ MayRun(t)
    /\ bot_status' = [bot_status EXCEPT !.last_update = @ + 1]
    /\ th' = [th EXCEPT ![t] = [@ EXCEPT !.pc = "done", !.resp = 200]]
    /\ cpu' = "none"
    /\ UNCHANGED <<cfg, svc, files, received, incOps>>

\* The request is over; its thread takes the next one.
Return(t) ==
    /\ th[t].pc = "done"
    /\ th' = [th EXCEPT ![t] = Idle]
    /\ UNCHANGED <<cfg, svc, bot_status, files, received, cpu, incOps>>

-----------------------------------------------------------------------------
(* bot_status[c] += 1: a read, then a write.                               *)

\* Mutant: only the text handler sets last_update after its counter.
TouchesLastUpdateTextOnly(r) ==
    r.ctr # "errors" /\ r.kind = "text"

\* Whether the handler sets last_update right after the counter:
\* simple_app.py 149-150, 227-228; app.py 122-123, 192-193.
TouchesLastUpdate(r) ==
    r.ctr # "errors" /\ r.kind \in {"text", "photo"}

IncRead(t) ==
    /\ th[t].pc = "inc_read"
    /\ MayRun(t)
    /\ th' = [th EXCEPT ![t] =
          [@ EXCEPT !.pc = "inc_write", !.reg = bot_status[th[t].ctr]]]
    /\ cpu' = Hold(t)
    /\ UNCHANGED <<cfg, svc, bot_status, files, received, incOps>>

IncWrite(t) ==
    /\ th[t].pc = "inc_write"
    /\ MayRun(t)
    /\ LET r == th[t] IN
         /\ bot_status' =
              [bot_status EXCEPT ![r.ctr] = r.reg + 1,
                                 !.last_update =
                                     IF TouchesLastUpdate(r) THEN @ + 1 ELSE @]
         /\ incOps' = [incOps EXCEPT ![r.ctr] = @ + 1]
         /\ th' = [th EXCEPT ![t] = [@ EXCEPT !.pc = r.ret]]
    /\ cpu' = "none"
    /\ UNCHANGED <<cfg, svc, files, received>>

-----------------------------------------------------------------------------
(* The generative-AI adapter, as its callers see it.                       *)

\* gemini_service.py 27-52: generate_response returns the model's text, a
\* fixed fallback when the text is empty, and a fixed "❌ ..." string when
\* the client is missing or the call raises; it never raises.
GenerateOutcomes ==
    IF cfg.gemini THEN {"ok", "empty", "exception"} ELSE {"unavailable"}

\* An adapter result that reports a failure (a string starting with "❌").
IsErrorResult(o) == o \in {"unavailable", "exception", "api_error"}

-----------------------------------------------------------------------------
(* Commands.                                                               *)

\* simple_app.py 84-135, 264-272: the reply's result is dropped; no counter.
\* app.py 51-105: reply_text, then messages_processed += 1; a raising
\* reply_text leaves the handler.
Command(t) ==
    /\ th[t].pc = "cmd"
    /\ MayRun(t)
    /\ \E o \in SendOutcomes :
         LET r == [th[t] EXCEPT !.sends = Sent(th[t], "text", <<<<th[t].kind>>>>, o),
                                !.exit = IF o = "ok" THEN "normal" ELSE "failed",
                                !.caught = IF Simple /\ o = "fail" THEN @ + 1 ELSE @]
         IN  th' = [th EXCEPT ![t] =
                 IF Simple THEN [r EXCEPT !.pc = "wh_finish"]
                 ELSE IF o = "ok"
                      THEN [r EXCEPT !.pc = "inc_read",
                                     !.ctr = "messages_processed", !.ret = "done"]
                      ELSE [r EXCEPT !.pc = "done"]]
    /\ cpu' = "none"
    /\ UNCHANGED <<cfg, svc, bot_status, files, received, incOps>>

-----------------------------------------------------------------------------
(* Text messages.                                                          *)

\* The text handler counts a message whatever the send returned.
TextAfterSendUnchecked(gen, o) ==
    IF Simple
    THEN "messages_processed"
    ELSE IF o = "ok" THEN "messages_processed" ELSE "except"

\* What follows the reply: simple_app.py 148-154 counts a message when the
\* send helper returned true and an error otherwise; app.py 120-129 counts a
\* message when reply_text returned and enters the except clause when it
\* raised.  The adapter's result is not looked at.
TextAfterSend(gen, o) ==
    IF Simple
    THEN IF o = "ok" THEN "messages_processed" ELSE "errors"
    ELSE IF o = "ok" THEN "messages_processed" ELSE "except"

\* simple_app.py 137-154, app.py 107-124.
TextHandle(t) ==
    /\ th[t].pc = "text"
    /\ MayRun(t)
    /\ \E typing \in (IF Simple THEN {"ok"} ELSE SendOutcomes),
          gen \in GenerateOutcomes, o \in SendOutcomes :
         LET r  == th[t]
             r1 == [r EXCEPT !.calls.gen = @ + 1, !.res.gen = gen,
                             !.sends = Sent(r, "text", <<<<"gen", gen>>>>, o),
                             !.caught = @ + (IF gen = "exception" THEN 1 ELSE 0)
                                          + (IF Simple /\ o = "fail" THEN 1 ELSE 0)]
             nx == TextAfterSend(gen, o)
         IN  th' = [th EXCEPT ![t] =
                 IF typing = "fail"
                 THEN [r EXCEPT !.pc = "text_except"]
                 ELSE IF nx = "except"
                      THEN [r1 EXCEPT !.pc = "text_except"]
                      ELSE [r1 EXCEPT !.pc = "inc_read", !.ctr = nx,
                                      !.ret = HandlerReturn,
                                      !.exit = IF o = "ok" THEN "normal" ELSE "failed"]]
    /\ cpu' = "none"
    /\ UNCHANGED <<cfg, svc, bot_status, files, received, incOps>>

\* app.py 126-129 (simple_app.py 156-159, which nothing in its try block
\* reaches): the apology, then errors += 1; a raising apology leaves the
\* handler before the counter.
TextExcept(t) ==
    /\ th[t].pc = "text_except"
    /\ MayRun(t)
    /\ \E o \in SendOutcomes :
         LET r == [th[t] EXCEPT !.sends = Sent(th[t], "text", <<<<"apology_text">>>>, o),
                                !.exit = "except", !.caught = @ + 1]
         IN  th' = [th EXCEPT ![t] =
                 IF o = "ok" \/ Simple
                 THEN [r EXCEPT !.pc = "inc_read", !.ctr = "errors",
                                !.ret = HandlerReturn]
                 ELSE [r EXCEPT !.pc = "done"]]
    /\ cpu' = "none"
    /\ UNCHANGED <<cfg, svc, bot_status, files, received, incOps>>

-----------------------------------------------------------------------------
(* Photos.                                                                 *)

\* vision_service.py 30-57, 121-123: the fixed string without a client, the
\* remote error's own message when the response carries one, a fixed string
\* when anything raises (the image file missing included); never raises.
VisionOutcomes(path) ==
    IF ~cfg.vision THEN {"unavailable"}
    ELSE IF path \notin files THEN {"exception"}
    ELSE {"ok", "api_error", "exception"}

\* gemini_service.py 54-89: analyze_image, likewise.
GeminiImageOutcomes(path) ==
    IF ~cfg.gemini THEN {"unavailable"}
    ELSE IF path \notin files THEN {"exception"}
    ELSE {"ok", "exception"}

\* background_service.py 21-91: remove_background raises without a key, when
\* the image cannot be read, on a non-200 answer and on a timeout; otherwise
\* it writes the processed file and returns its path.
RemoveOutcomes(path) ==
    IF ~cfg.background \/ path \notin files THEN {"raise"} ELSE {"ok", "raise"}

\* The download: simple_app.py 172-186 (getFile may raise or answer not ok,
\* the download may raise); app.py 137-145 (the chat action, get_file and
\* download_to_drive may each raise).
DownloadOutcomes ==
    IF Simple THEN {"ok", "notok", "raise"} ELSE {"ok", "raise"}

\* Whether an adapter's result becomes a section of the reply:
\* simple_app.py 195, 200 (non-empty and not starting with "❌"),
\* app.py 155, 160 (non-empty).
IncludeSection(o) == IF Simple THEN ~IsErrorResult(o) ELSE TRUE

\* Whether remove_background is called: simple_app.py 204, app.py 164.
ShouldRemoveBg(remove_bg) == remove_bg /\ (Simple => cfg.background)

\* Mutant: a failed image annotation ends the handler.
AfterVisionAbort(o) == IF IsErrorResult(o) THEN "photo_except" ELSE "photo_gemini"

\* simple_app.py 194-199, app.py 154-159: whatever the annotation returned,
\* the generative analysis comes next.
AfterVision(o) == "photo_gemini"

\* simple_app.py 199-204, app.py 159-164: after the analyses, the background
\* step.
AfterGemini(remove_bg) == "photo_bg"

\* A failed background removal is tried again.
AfterBgFailureRetry(parts) == [parts |-> parts, pc |-> "photo_bg"]

\* simple_app.py 212-214, app.py 177-179: the inner except adds the failure
\* line and the handler goes on to the reply.
AfterBgFailure(parts) ==
    [parts |-> Append(parts, <<"bg_failed">>), pc |-> "photo_reply"]

\* Mutant: the test on response_parts is inverted.
ReplyBodyInverted(parts) == IF parts = <<>> THEN parts ELSE <<<<"no_analysis">>>>

\* simple_app.py 217-221, app.py 182-186.
ReplyBody(parts) == IF parts # <<>> THEN parts ELSE <<<<"no_analysis">>>>

PhotoDownload(t) ==
    /\ th[t].pc = "photo"
    /\ MayRun(t)
    /\ \E d \in DownloadOutcomes, o \in SendOutcomes :
         LET r  == [th[t] EXCEPT !.calls.dl = @ + 1]
             ip == TempPath(r.fid)
         IN  CASE d = "ok" ->
                   /\ o = "ok"
                   /\ files' = files \cup {ip}
                   /\ th' = [th EXCEPT ![t] =
                         [r EXCEPT !.pc = "photo_vision", !.downloaded = TRUE,
                                   !.image_path = ip,
                                   !.remove_bg = RemoveBgRequested(CaptionText(r.caption))]]
               [] d = "raise" ->
                   /\ o = "ok"
                   /\ files' = files
                   /\ th' = [th EXCEPT ![t] = [r EXCEPT !.pc = "photo_except"]]
               [] d = "notok" ->
                   /\ files' = files
                   /\ th' = [th EXCEPT ![t] =
                         [r EXCEPT !.pc = HandlerReturn, !.exit = "early",
                                   !.sends = Sent(r, "text", <<<<"no_download">>>>, o),
                                   !.caught = IF o = "fail" THEN @ + 1 ELSE @]]
    /\ cpu' = "none"
    /\ UNCHANGED <<cfg, svc, bot_status, received, incOps>>

PhotoVision(t) ==
    /\ th[t].pc = "photo_vision"
    /\ MayRun(t)
    /\ \E o \in VisionOutcomes(th[t].image_path) :
         th' = [th EXCEPT ![t] =
             [@ EXCEPT !.pc = AfterVision(o), !.calls.vision = @ + 1,
                       !.res.vision = o,
                       !.caught = IF o = "exception" THEN @ + 1 ELSE @,
                       !.parts = IF IncludeSection(o)
                                 THEN Append(@, <<"vision", o>>) ELSE @]]
    /\ cpu' = Hold(t)
    /\ UNCHANGED <<cfg, svc, bot_status, files, received, incOps>>

PhotoGemini(t) ==
    /\ th[t].pc = "photo_gemini"
    /\ MayRun(t)
    /\ \E o \in GeminiImageOutcomes(th[t].image_path) :
         th' = [th EXCEPT ![t] =
             [@ EXCEPT !.pc = AfterGemini(th[t].remove_bg), !.calls.gemini = @ + 1,
                       !.res.gemini = o,
                       !.caught = IF o = "exception" THEN @ + 1 ELSE @,
                       !.parts = IF IncludeSection(o)
                                 THEN Append(@, <<"gemini", o>>) ELSE @]]
    /\ cpu' = Hold(t)
    /\ UNCHANGED <<cfg, svc, bot_status, files, received, incOps>>

\* simple_app.py 204-206, 212-214; app.py 164-166, 177-179;
\* background_service.py 60-67: the processed file is named after the image.
PhotoBg(t) ==
    /\ th[t].pc = "photo_bg"
    /\ MayRun(t)
    /\ LET r == th[t] IN
       IF ~ShouldRemoveBg(r.remove_bg)
       THEN /\ th' = [th EXCEPT ![t] = [r EXCEPT !.pc = "photo_reply"]]
            /\ files' = files
       ELSE \E o \in RemoveOutcomes(r.image_path) :
              LET r1 == [r EXCEPT !.calls.bg = @ + 1, !.res.bg = o]
                  f  == AfterBgFailure(r.parts)
              IN  IF o = "ok"
                  THEN /\ files' = files \cup {ProcessedPath(r.fid)}
                       /\ th' = [th EXCEPT ![t] =
                             [r1 EXCEPT !.pc = "bg_send",
                                        !.processed = ProcessedPath(r.fid)]]
                  ELSE /\ files' = files
                       /\ th' = [th EXCEPT ![t] =
                             [r1 EXCEPT !.pc = f.pc, !.parts = f.parts,
                                        !.caught = @ + 1]]
    /\ cpu' = Hold(t)
    /\ UNCHANGED <<cfg, svc, bot_status, received, incOps>>

\* simple_app.py 209-210 with the send helper 64-82 (a missing file makes the
\* helper return false); app.py 169-174 (a missing file or a raising
\* send_photo enters the inner except).
BgSend(t) ==
    /\ th[t].pc = "bg_send"
    /\ MayRun(t)
    /\ \E o \in (IF th[t].processed \in files THEN SendOutcomes ELSE {"fail"}) :
         LET r  == th[t]
             r1 == IF r.processed \in files
                   THEN [r EXCEPT !.sends = Sent(r, "photo", <<<<"bg_caption">>>>, o)]
                   ELSE r
             f  == AfterBgFailure(r.parts)
         IN  th' = [th EXCEPT ![t] =
                 IF Simple
                 THEN [r1 EXCEPT !.pc = "bg_rm",
                                 !.caught = IF o = "fail" THEN @ + 1 ELSE @,
                                 !.parts = IF o = "ok"
                                           THEN Append(@, <<"bg_done">>) ELSE @]
                 ELSE IF o = "ok"
                      THEN [r1 EXCEPT !.pc = "bg_rm"]
                      ELSE [r1 EXCEPT !.pc = f.pc, !.parts = f.parts,
                                      !.caught = @ + 1]]
    /\ cpu' = "none"
    /\ UNCHANGED <<cfg, svc, bot_status, files, received, incOps>>

\* simple_app.py 211, app.py 175-176: os.remove of the processed file, which
\* raises into the inner except when the file is gone.
BgRm(t) ==
    /\ th[t].pc = "bg_rm"
    /\ MayRun(t)
    /\ LET r == th[t]
           f == AfterBgFailure(r.parts)
       IN  IF r.processed \in files
           THEN /\ files' = files \ {r.processed}
                /\ th' = [th EXCEPT ![t] =
                      [r EXCEPT !.pc = "photo_reply",
                                !.parts = IF Simple THEN @
                                          ELSE Append(@, <<"bg_done">>)]]
           ELSE /\ files' = files
                /\ th' = [th EXCEPT ![t] =
                      [r EXCEPT !.pc = f.pc, !.parts = f.parts, !.caught = @ + 1]]
    /\ cpu' = Hold(t)
    /\ UNCHANGED <<cfg, svc, bot_status, received, incOps>>

\* simple_app.py 217-221 (the helper's result is dropped), app.py 182-186 (a
\* raising reply_text enters the outer except).
PhotoReply(t) ==
    /\ th[t].pc = "photo_reply"
    /\ MayRun(t)
    /\ \E o \in SendOutcomes :
         LET r == [th[t] EXCEPT !.sends = Sent(th[t], "text", ReplyBody(th[t].parts), o)]
         IN  th' = [th EXCEPT ![t] =
                 IF Simple
                 THEN [r EXCEPT !.pc = "photo_cleanup",
                                !.caught = IF o = "fail" THEN @ + 1 ELSE @]
                 ELSE IF o = "ok"
                      THEN [r EXCEPT !.pc = "photo_cleanup"]
                      ELSE [r EXCEPT !.pc = "photo_except"]]
    /\ cpu' = "none"
    /\ UNCHANGED <<cfg, svc, bot_status, files, received, incOps>>

\* simple_app.py 224-228, app.py 189-193: the image file is removed if it is
\* there, then images_processed += 1 and last_update.
PhotoCleanup(t) ==
    /\ th[t].pc = "photo_cleanup"
    /\ MayRun(t)
    /\ files' = files \ {th[t].image_path}
    /\ th' = [th EXCEPT ![t] =
          [@ EXCEPT !.pc = "inc_read", !.ctr = "images_processed",
                    !.ret = HandlerReturn, !.exit = "normal"]]
    /\ cpu' = Hold(t)
    /\ UNCHANGED <<cfg, svc, bot_status, received, incOps>>

\* simple_app.py 231-234, app.py 196-199: the outer except sends the apology,
\* then errors += 1; in app.py a raising apology leaves the handler first.
PhotoExcept(t) ==
    /\ th[t].pc = "photo_except"
    /\ MayRun(t)
    /\ \E o \in SendOutcomes :
         LET r == [th[t] EXCEPT !.sends = Sent(th[t], "text", <<<<"apology_photo">>>>, o),
                                !.exit = "except", !.caught = @ + 1]
         IN  th' = [th EXCEPT ![t] =
                 IF o = "ok" \/ Simple
                 THEN [r EXCEPT !.pc = "inc_read", !.ctr = "errors",
                                !.ret = HandlerReturn]
                 ELSE [r EXCEPT !.pc = "done"]]
    /\ cpu' = "none"
    /\ UNCHANGED <<cfg, svc, bot_status, files, received, incOps>>

-----------------------------------------------------------------------------

Next ==
    \E t \in Threads :
        \/ WebhookReject(t)
        \/ WebhookSimple(t)
        \/ WebhookApp(t)
        \/ WebhookExcept(t)
        \/ WebhookFinish(t)
        \/ Return(t)
        \/ IncRead(t)
        \/ IncWrite(t)
        \/ Command(t)
        \/ TextHandle(t)
        \/ TextExcept(t)
        \/ PhotoDownload(t)
        \/ PhotoVision(t)
        \/ PhotoGemini(t)
        \/ PhotoBg(t)
        \/ BgSend(t)
        \/ BgRm(t)
        \/ PhotoReply(t)
        \/ PhotoCleanup(t)
        \/ PhotoExcept(t)

Spec == Init /\ [][Next]_vars

SpecConc == InitConc /\ [][Next]_vars

-----------------------------------------------------------------------------
(* The service adapters, called directly: src/services.                    *)

InitSvc == InitCommon /\ ~cfg.threaded /\ Simple /\ cfg.token

Adapters == {"gemini", "vision", "background"}

\* is_available(): the client (the API key) is not None.
IsAvailable(adapter) ==
    CASE adapter = "gemini" -> cfg.gemini
      [] adapter = "vision" -> cfg.vision
      [] adapter = "background" -> cfg.background

\* The public operations of the adapters, <<adapter, operation>>.
Operations ==
    {<<"gemini", "generate_response">>, <<"gemini", "analyze_image">>,
     <<"gemini", "summarize_text">>, <<"vision", "analyze_image">>,
     <<"vision", "extract_text">>, <<"background", "remove_background">>,
     <<"background", "get_account_info">>}

\* What the remote end does with a request: an answer with content, an
\* answer without content, an answer that reports an error (an error
\* message, a status other than 200), or the client call raises (transport
\* failure, timeout).
RemoteOutcomes == {"ok", "empty", "error", "raise"}

\* An operation returns a value or raises; network is the number of
\* requests it made.  Values and messages are named, not spelled out:
\* "content" comes from the remote end, "remote_error" is text that embeds
\* the remote end's error message, "None" is Python's None, every other name
\* stands for one fixed string of the source.
Returns(value, network) == [value |-> value, raised |-> FALSE, network |-> network]

Raises(message, network) == [value |-> message, raised |-> TRUE, network |-> network]

\* The adapter skips its guard on the client and goes to the network.
GeminiOpUnguarded(op, remote) ==
    CASE remote = "ok" -> Returns("content", 1)
      [] remote = "empty" -> Returns("fallback", 1)
      [] OTHER -> Returns("error_text", 1)

\* gemini_service.py 27-108: generate_response, analyze_image,
\* summarize_text.  The client raises on a remote error.
GeminiOp(op, remote) ==
    IF ~cfg.gemini
    THEN Returns(IF op = "generate_response" THEN "unavailable_check_key"
                                             ELSE "unavailable", 0)
    ELSE CASE remote = "ok" -> Returns("content", 1)
           [] remote = "empty" -> Returns("fallback", 1)
           [] OTHER -> Returns("error_text", 1)

\* vision_service.py 30-151: analyze_image, extract_text.
VisionOp(op, remote) ==
    IF ~cfg.vision
    THEN Returns(IF op = "analyze_image" THEN "unavailable_check_key"
                                         ELSE "unavailable", 0)
    ELSE CASE remote = "ok" -> Returns("content", 1)
           [] remote = "empty" -> Returns("fallback", 1)
           [] remote = "error" -> Returns("remote_error", 1)
           [] OTHER -> Returns("error_text", 1)

\* background_service.py 21-91 and 133-154: remove_background raises on
\* every failure, get_account_info returns None on every failure.
BackgroundOp(op, remote) ==
    IF op = "remove_background"
    THEN IF ~cfg.background
         THEN Raises("unavailable_check_key", 0)
         ELSE CASE remote \in {"ok", "empty"} -> Returns("content", 1)
                [] remote = "error" -> Raises("remote_error", 1)
                [] OTHER -> Raises("error_text", 1)
    ELSE IF ~cfg.background
         THEN Returns("None", 0)
         ELSE IF remote = "ok" THEN Returns("content", 1) ELSE Returns("None", 1)

OpResult(adapter, op, remote) ==
    CASE adapter = "gemini" -> GeminiOp(op, remote)
      [] adapter = "vision" -> VisionOp(op, remote)
      [] adapter = "background" -> BackgroundOp(op, remote)

\* One call of one operation of one adapter, with is_available() read
\* beside it.
AdapterCall ==
    /\ svc.done
    /\ \E ao \in Operations, remote \in RemoteOutcomes :
         svc' = [fn |-> "adapter", done |-> TRUE, adapter |-> ao[1],
                 op |-> ao[2], available |-> IsAvailable(ao[1]),
                 out |-> OpResult(ao[1], ao[2], remote)]
    /\ UNCHANGED <<cfg, bot_status, files, received, th, cpu, incOps>>

-----------------------------------------------------------------------------
(* BackgroundService._compress_image; sizes are in whole megabytes.        *)

\* background_service.py 32: 12 * 1024 * 1024.
UploadLimitMB == 12

\* background_service.py 93: max_size = 10 * 1024 * 1024.
TargetMB == 10

StartQuality == 85

FloorQuality == 10

QualityStep == 10

\* The sizes of the image files read, around the upload limit.
ImageSizes == {11, 12, 13, 14}

\* The sizes a JPEG encoding may come out at, around the target.
EncodedSizes == {9, 10, 11}

\* The loop encodes at every positive quality.
LoopRunsToZero(quality) == quality > 0

\* background_service.py 115: while quality > 10.
LoopRuns(quality) == quality > FloorQuality

\* background_service.py 28-34: the image is read; above the limit it goes
\* through _compress_image (entered with quality 85 and an empty output
\* buffer), otherwise it is uploaded as it is.
ReadImage ==
    /\ svc.done
    /\ \E size \in ImageSizes :
         svc' = [fn |-> "compress", data |-> size, tried |-> <<>>,
                 quality |-> StartQuality, output |-> 0, output_quality |-> 0,
                 failed |-> FALSE,
                 compress |-> size > UploadLimitMB,
                 pc |-> IF size > UploadLimitMB THEN "loop" ELSE "return",
                 done |-> ~(size > UploadLimitMB),
                 upload |-> IF size > UploadLimitMB THEN 0 ELSE size]
    /\ UNCHANGED <<cfg, bot_status, files, received, th, cpu, incOps>>

\* background_service.py 115-123: one turn of the loop.
CompressSave ==
    /\ svc.fn = "compress" /\ ~svc.done /\ svc.pc = "loop"
    /\ LoopRuns(svc.quality)
    /\ \E size \in EncodedSizes :
         svc' = [svc EXCEPT
                   !.output = size,
                   !.output_quality = svc.quality,
                   !.tried = Append(@, [quality |-> svc.quality, size |-> size]),
                   !.pc = IF size <= TargetMB THEN "return" ELSE "loop",
                   !.quality = IF size <= TargetMB THEN @ ELSE @ - QualityStep]
    /\ UNCHANGED <<cfg, bot_status, files, received, th, cpu, incOps>>

\* background_service.py 125-127: after the loop, by break or by its
\* condition, the bytes in the output buffer are returned.
CompressReturn ==
    /\ svc.fn = "compress" /\ ~svc.done
    /\ svc.pc = "return" \/ ~LoopRuns(svc.quality)
    /\ svc' = [svc EXCEPT !.done = TRUE, !.pc = "return", !.upload = svc.output]
    /\ UNCHANGED <<cfg, bot_status, files, received, th, cpu, incOps>>

\* background_service.py 129-131: decoding or encoding raised; the original
\* bytes are returned.
CompressFail ==
    /\ svc.fn = "compress" /\ ~svc.done /\ svc.pc = "loop"
    /\ LoopRuns(svc.quality)
    /\ svc' = [svc EXCEPT !.done = TRUE, !.failed = TRUE, !.upload = svc.data]
    /\ UNCHANGED <<cfg, bot_status, files, received, th, cpu, incOps>>

-----------------------------------------------------------------------------
(* VisionService.analyze_image: the safe-search part of the output.        *)

\* The likelihoods of a safe-search annotation, by category: 0 is unknown,
\* 1 very unlikely, ..., 5 very likely.
SafetyCategories == {"adult", "spoof", "medical", "violence", "racy"}

SafeSearchAnnotations ==
    [adult : 0..5, violence : 0..5, racy : {1, 5}, spoof : {1}, medical : {2}]

\* vision_service.py 99-105 and the default of safety_levels.get.
SafetyLevel(likelihood) ==
    CASE likelihood = 1 -> "Very unlikely"
      [] likelihood = 2 -> "Unlikely"
      [] likelihood = 3 -> "Possible"
      [] likelihood = 4 -> "Likely"
      [] likelihood = 5 -> "Very likely"
      [] OTHER -> "Unknown"

\* "Possible" itself is not reported.
ReportedAbovePossible(likelihood) == likelihood > 3

\* vision_service.py 108, 110: >= 3.
Reported(likelihood) == likelihood >= 3

\* vision_service.py 107-111: safety_info, as <<category, label>> pairs in
\* the order they are appended.
SafetyInfo(safe_search) ==
    (IF Reported(safe_search.adult)
     THEN <<<<"adult", SafetyLevel(safe_search.adult)>>>> ELSE <<>>)
    \o (IF Reported(safe_search.violence)
        THEN <<<<"violence", SafetyLevel(safe_search.violence)>>>> ELSE <<>>)

\* vision_service.py 96-114: the safety line is added to the output when
\* safety_info is not empty.
FormatSafety ==
    /\ svc.done
    /\ \E safe_search \in SafeSearchAnnotations :
         svc' = [fn |-> "safety", done |-> TRUE, safe_search |-> safe_search,
                 safety_info |-> SafetyInfo(safe_search),
                 line |-> SafetyInfo(safe_search) # <<>>]
    /\ UNCHANGED <<cfg, bot_status, files, received, th, cpu, incOps>>

-----------------------------------------------------------------------------

NextSvc ==
    \/ AdapterCall
    \/ ReadImage
    \/ CompressSave
    \/ CompressReturn
    \/ CompressFail
    \/ FormatSafety

SpecSvc == InitSvc /\ [][NextSvc]_vars

-----------------------------------------------------------------------------
(* Properties.                                                             *)

Done(t) == th[t].pc = "done"

\* The update is a photo and its handler was entered.
PhotoDone(t) == Done(t) /\ th[t].kind = "photo" /\ th[t].calls.dl = 1

\* The captions that contain "remove background" in some letter case, read
\* off the caption texts.
CaptionAsks(c) == c \in {"mixed", "embedded"}

AllSendsOk(r) == \A i \in 1..Len(r.sends) : r.sends[i].ok

Range(s) == {s[i] : i \in 1..Len(s)}

\* C1 as stated: for every photo update the background-removal adapter is
\* invoked if and only if the caption contains "remove background" in any
\* letter case.
C1_InvokedIffCaptionAsks ==
    \A t \in Threads :
        PhotoDone(t) => (th[t].calls.bg >= 1 <=> CaptionAsks(th[t].caption))

\* C1 as amended: the adapter is never invoked for a caption without the
\* phrase (absent and empty captions included); for a caption with the
\* phrase it is invoked exactly once when the image was downloaded and, in
\* simple_app.py, the adapter is configured, and not at all otherwise.
C1_InvokedWhenAskedAndReached ==
    \A t \in Threads :
        /\ (~CaptionAsks(th[t].caption) => th[t].calls.bg = 0)
        /\ PhotoDone(t) =>
             th[t].calls.bg =
                 IF /\ CaptionAsks(th[t].caption)
                    /\ th[t].downloaded
                    /\ (Simple => cfg.background)
                 THEN 1 ELSE 0

C1_Witness ==
    \E t \in Threads :
        PhotoDone(t) /\ th[t].caption = "mixed" /\ th[t].calls.bg = 1

\* C2: once the photo handler is over, by whatever exit, neither the
\* downloaded image file nor the processed file is on disk.
C2_NoFilesAfterHandler ==
    \A t \in Threads :
        PhotoDone(t) =>
            /\ TempPath(th[t].fid) \notin files
            /\ ProcessedPath(th[t].fid) \notin files

\* The scenario of C3: the caption asks for removal, both analyses return
\* non-error strings and the background adapter is configured and succeeds.
C3_Scenario(t) ==
    /\ PhotoDone(t)
    /\ CaptionAsks(th[t].caption)
    /\ th[t].res.vision = "ok" /\ th[t].res.gemini = "ok"
    /\ cfg.background /\ th[t].res.bg = "ok"

\* C3 as stated: in the scenario exactly two sends occur, the analysis text
\* first and the processed photo second.
C3_TextThenPhoto ==
    \A t \in Threads :
        C3_Scenario(t) =>
            /\ Len(th[t].sends) = 2
            /\ th[t].sends[1].type = "text"
            /\ th[t].sends[2].type = "photo"

\* C3 as amended: in the scenario, when both sends succeed, exactly two
\* sends occur, the processed photo with its caption first and the analysis
\* text, ending with the confirmation line, second.
C3_PhotoThenText ==
    \A t \in Threads :
        C3_Scenario(t) /\ AllSendsOk(th[t]) =>
            /\ Len(th[t].sends) = 2
            /\ th[t].sends[1].type = "photo"
            /\ th[t].sends[1].body = <<<<"bg_caption">>>>
            /\ th[t].sends[2].type = "text"
            /\ th[t].sends[2].body =
                   <<<<"vision", "ok">>, <<"gemini", "ok">>, <<"bg_done">>>>

C3_Witness ==
    \E t \in Threads :
        C3_Scenario(t) /\ AllSendsOk(th[t]) /\ Len(th[t].sends) = 2

\* C4: messages_processed grows by one for a command (/start, /help,
\* /status) or a text message whose reply was delivered, and by nothing
\* otherwise.
C4_MessagesCounted ==
    \A t \in Threads :
        Done(t) =>
            bot_status.messages_processed =
                th[t].mp0 +
                (IF /\ th[t].kind \in {"start", "help", "status", "text"}
                    /\ th[t].sends # <<>> /\ AllSendsOk(th[t])
                 THEN 1 ELSE 0)

\* C5: errors grows by one per failure caught while handling the update.
C5_ErrorsCountCaughtFailures ==
    \A t \in Threads :
        Done(t) => bot_status.errors = th[t].err0 + th[t].caught

\* C6 as stated: every photo update that reaches the handler adds one to
\* images_processed and has the handler set last_update (the webhook sets
\* it once more per update).
C6_AlwaysCounted ==
    \A t \in Threads :
        PhotoDone(t) =>
            /\ bot_status.images_processed = th[t].ip0 + 1
            /\ bot_status.last_update = th[t].lu0 + 2

\* C6 as amended: a photo update whose handler runs to its end (the image
\* was downloaded and no exception reached the outer except) adds one to
\* images_processed and has the handler set last_update, whatever the
\* adapters returned; a handler that returns early or enters its outer
\* except leaves images_processed as it was and does not set last_update.
C6_CountedOnNormalExit ==
    \A t \in Threads :
        PhotoDone(t) =>
            IF th[t].exit = "normal"
            THEN /\ bot_status.images_processed = th[t].ip0 + 1
                 /\ bot_status.last_update = th[t].lu0 + 2
            ELSE /\ bot_status.images_processed = th[t].ip0
                 /\ bot_status.last_update = th[t].lu0 + 1

C6_Witness ==
    \E t \in Threads :
        /\ PhotoDone(t) /\ th[t].exit = "normal"
        /\ th[t].res.gemini = "exception" /\ th[t].res.bg = "raise"
        /\ bot_status.images_processed = th[t].ip0 + 1

\* C7: with no request in flight, every counter equals the number of
\* increments performed on it.
C7_NoLostIncrement ==
    (\A t \in Threads : th[t].pc \in {"idle", "done"}) =>
        \A c \in Counters : bot_status[c] = incOps[c]

\* C8: a handler's image file is its own: no other handler overwrites or
\* deletes it, so it stays on disk for as long as the handler that wrote it
\* still has to read it (before the annotation, the generative analysis and
\* the background removal).
C8_ImageFileKeptWhileNeeded ==
    \A t \in Threads :
        th[t].pc \in {"photo_vision", "photo_gemini", "photo_bg"} =>
            th[t].image_path \in files

\* C9: once the image is downloaded, the annotation and the generative
\* analysis are each called once whatever the other returned, background
\* removal is called once when it is requested (and, in simple_app.py,
\* configured) whatever the analyses returned, and a removal that raised is
\* followed by the text reply carrying the failure line.
C9_AdaptersIndependent ==
    \A t \in Threads :
        Done(t) /\ th[t].downloaded =>
            /\ th[t].calls.vision = 1
            /\ th[t].calls.gemini = 1
            /\ (CaptionAsks(th[t].caption) /\ (Simple => cfg.background)
                  => th[t].calls.bg = 1)
            /\ (th[t].res.bg = "raise" =>
                  \E i \in 1..Len(th[t].sends) :
                      /\ th[t].sends[i].type = "text"
                      /\ <<"bg_failed">> \in Range(th[t].sends[i].body))

C9_Witness ==
    \E t \in Threads :
        /\ Done(t) /\ th[t].downloaded
        /\ IsErrorResult(th[t].res.vision) /\ th[t].res.gemini = "exception"
        /\ th[t].res.bg = "raise"
        /\ \E i \in 1..Len(th[t].sends) :
               <<"bg_failed">> \in Range(th[t].sends[i].body)

\* C10: for a text message whose reply was delivered, a failed adapter call
\* (no client, or the remote call raised) adds one to errors and nothing to
\* messages_processed and the user gets a fixed string; a successful call
\* adds one to messages_processed and nothing to errors and the user gets
\* the adapter's output.
C10_TextCountsByAdapterResult ==
    \A t \in Threads :
        Done(t) /\ th[t].kind = "text" /\ th[t].calls.gen = 1 /\ AllSendsOk(th[t]) =>
            /\ Len(th[t].sends) = 1
            /\ th[t].sends[1].body = <<<<"gen", th[t].res.gen>>>>
            /\ IF IsErrorResult(th[t].res.gen)
               THEN /\ bot_status.errors = th[t].err0 + 1
                    /\ bot_status.messages_processed = th[t].mp0
               ELSE /\ bot_status.errors = th[t].err0
                    /\ bot_status.messages_processed = th[t].mp0 + 1

\* The adapter named in svc was called without its credential.
UnconfiguredCall == svc.fn = "adapter" /\ ~IsAvailable(svc.adapter)

\* The fixed strings an adapter returns when it has no client.
UnavailableTexts == {"unavailable_check_key", "unavailable"}

Compressed == svc.fn = "compress" /\ svc.done /\ svc.compress /\ ~svc.failed

\* 85, 75, ..., 15: the qualities above the floor, in the order tried.
QualityLadder == [i \in 1..8 |-> StartQuality - (i - 1) * QualityStep]

\* C12 as stated: the bytes uploaded for an image above 12MB are at most
\* 10MB or are the encoding at the floor quality 10.
C12_TargetOrFloorEncoding ==
    Compressed => svc.upload <= TargetMB \/ svc.output_quality = FloorQuality

\* C12: for an image above 12MB the routine encodes at qualities 85, 75,
\* ... down to 15 (never at 10), stops at the first encoding of at most
\* 10MB and returns the last encoding it made: one of at most 10MB, or,
\* when all eight are larger, the quality-15 encoding; if decoding or
\* encoding raises, the original bytes are returned.  The loop makes at
\* most eight encodings.
C12_TargetOrLastEncoding ==
    /\ svc.fn = "compress" =>
          /\ Len(svc.tried) <= 8
          /\ \A i \in 1..Len(svc.tried) :
                /\ svc.tried[i].quality = QualityLadder[i]
                /\ i < Len(svc.tried) => svc.tried[i].size > TargetMB
          /\ svc.done /\ svc.failed => svc.upload = svc.data
    /\ Compressed =>
          /\ svc.tried # <<>>
          /\ svc.upload = svc.tried[Len(svc.tried)].size
          /\ svc.output_quality = svc.tried[Len(svc.tried)].quality
          /\ svc.upload <= TargetMB
             \/ (Len(svc.tried) = 8 /\ svc.output_quality = 15)

C12_Witness ==
    /\ Compressed
    /\ svc.upload > TargetMB
    /\ svc.output_quality = 15

\* The categories that have an entry in the safety line.
SafetyShown == {svc.safety_info[i][1] : i \in 1..Len(svc.safety_info)}

\* C13 as stated: a safe-search annotation below ordinal 3 is omitted, one
\* of ordinal 3, 4 or 5 is in the output with its label, and there is no
\* safety line when no annotation reaches 3.
C13_EveryAnnotationFromPossible ==
    svc.fn = "safety" =>
        /\ \A c \in SafetyCategories :
              IF svc.safe_search[c] >= 3
              THEN <<c, SafetyLevel(svc.safe_search[c])>> \in Range(svc.safety_info)
              ELSE c \notin SafetyShown
        /\ (\A c \in SafetyCategories : svc.safe_search[c] < 3) => ~svc.line

\* C13: of the safe-search annotation only the adult and the violence
\* likelihood are reported: each is omitted below ordinal 3 and included
\* with its label (Possible, Likely, Very likely) at 3, 4 or 5; the other
\* categories never appear; the safety line is absent exactly when neither
\* of the two reaches 3.
C13_AdultAndViolenceFromPossible ==
    svc.fn = "safety" =>
        /\ \A c \in {"adult", "violence"} :
              IF svc.safe_search[c] >= 3
              THEN /\ <<c, SafetyLevel(svc.safe_search[c])>> \in Range(svc.safety_info)
                   /\ SafetyLevel(svc.safe_search[c]) \in
                          {"Possible", "Likely", "Very likely"}
              ELSE c \notin SafetyShown
        /\ SafetyShown \subseteq {"adult", "violence"}
        /\ Len(svc.safety_info) = Cardinality(SafetyShown)
        /\ svc.line <=> (svc.safe_search.adult >= 3 \/ svc.safe_search.violence >= 3)

C13_Witness ==
    /\ svc.fn = "safety"
    /\ svc.safe_search.adult = 3 /\ svc.safe_search.violence = 2
    /\ svc.safe_search.racy = 5
    /\ svc.safety_info = <<<<"adult", "Possible">>>>

\* C14: when a send to the messaging platform failed while an update was
\* handled (a command reply, the unknown-command reply, the text reply, the
\* photo reply or the processed photo), errors has been incremented by the
\* time the request ends, and the failed send is not made again.
C14_FailedSendCounted ==
    \A t \in Threads :
        Done(t) =>
            \A i \in 1..Len(th[t].sends) :
                ~th[t].sends[i].ok =>
                    /\ bot_status.errors >= th[t].err0 + 1
                    /\ \A j \in (i + 1)..Len(th[t].sends) :
                           th[t].sends[j].body # th[t].sends[i].body

\* A section whose text embeds the remote end's error message: the
\* image-annotation adapter's "Vision API error: <message>"
\* (vision_service.py 57).
RawErrorDetail(section) == section = <<"vision", "api_error">>

\* C15: nothing sent to the user, by the text handler or the photo handler
\* of either implementation, holds raw error detail of an exception or of a
\* remote service's error answer.
C15_NoRawErrorDetailSent ==
    \A t \in Threads :
        \A i \in 1..Len(th[t].sends) :
            \A k \in 1..Len(th[t].sends[i].body) :
                ~RawErrorDetail(th[t].sends[i].body[k])

\* The sends of the photo handler that carry the analysis or its fixed
\* substitute, as opposed to the download failure and the apology.
IsPhotoReply(s) ==
    /\ s.type = "text"
    /\ s.body \notin {<<<<"no_download">>>>, <<<<"apology_photo">>>>}

\* C16: in the photo handler an adapter's output is a section of the reply
\* only if it is not an error output, and when neither analysis gave a
\* non-error output (and no background removal was attempted) the reply is
\* exactly the fixed "could not analyze" text.
C16_ErrorOutputsLeftOut ==
    \A t \in Threads :
        th[t].kind = "photo" =>
            \A i \in 1..Len(th[t].sends) :
                LET s == th[t].sends[i] IN
                IsPhotoReply(s) =>
                    /\ \A k \in 1..Len(s.body) :
                          s.body[k][1] \in {"vision", "gemini"} =>
                              ~IsErrorResult(s.body[k][2])
                    /\ ( /\ IsErrorResult(th[t].res.vision)
                         /\ IsErrorResult(th[t].res.gemini)
                         /\ th[t].calls.bg = 0 )
                       => s.body = <<<<"no_analysis">>>>

\* C17: an update the webhook dispatched went to exactly one handler: a
\* command (text starting with "/") got exactly one text reply, the text of
\* its command or the unknown-command text, and called no adapter; any
\* other text went to the text handler and a photo to the photo handler,
\* neither touching the other's adapters; an update without text and photo
\* caused no outbound action.
C17_RoutedToOneHandler ==
    \A t \in Threads :
        Done(t) /\ th[t].resp = 200 =>
            LET r == th[t] IN
            /\ r.kind \in CommandKinds =>
                  /\ Len(r.sends) = 1
                  /\ r.sends[1].type = "text"
                  /\ r.sends[1].body = <<<<r.kind>>>>
                  /\ r.calls = NoCalls
            /\ r.kind = "text" =>
                  /\ r.calls.gen = 1 \/ r.exit = "except"
                  /\ r.calls.dl = 0 /\ r.calls.vision = 0
                  /\ r.calls.gemini = 0 /\ r.calls.bg = 0
            /\ r.kind = "photo" => r.calls.dl = 1 /\ r.calls.gen = 0
            /\ r.kind = "nomessage" => r.sends = <<>> /\ r.calls = NoCalls

\* The request of thread record r sent nothing, called no adapter and left
\* every field of bot_status as it found it.
Untouched(r) ==
    /\ r.sends = <<>> /\ r.calls = NoCalls /\ r.exit = "none"
    /\ bot_status.messages_processed = r.mp0
    /\ bot_status.images_processed = r.ip0
    /\ bot_status.errors = r.err0
    /\ bot_status.last_update = r.lu0

C19_EachCallAtMostOnce ==
    \A t \in Threads :
        LET r == th[t] IN
        /\ \A c \in DOMAIN NoCalls : r.calls[c] <= 1
        /\ \A i \in 1..Len(r.sends) :
              \A k \in 1..Len(r.sends[i].body) :
                  LET section == r.sends[i].body[k] IN
                  section[1] \in {"vision", "gemini", "gen"} =>
                      /\ r.calls[section[1]] = 1
                      /\ section[2] = r.res[section[1]]

C19_Witness ==
    \E t \in Threads :
        /\ Done(t) /\ th[t].calls.dl = 1
        /\ th[t].calls.vision = 1 /\ th[t].res.vision = "api_error"
        /\ th[t].calls.gemini = 1 /\ th[t].res.gemini = "exception"
        /\ th[t].calls.bg = 1 /\ th[t].res.bg = "raise"
        /\ th[t].exit = "normal"

\* C20: in simple_app.py a call of the text handler adds exactly 1 to
\* exactly one of messages_processed and errors: to messages_processed when
\* the reply was sent, to errors when the send failed or an exception was
\* caught; images_processed is left alone.
C20_TextChangesOneCounter ==
    \A t \in Threads :
        Done(t) /\ Simple /\ th[t].kind = "text" /\ th[t].resp = 200 =>
            LET r == th[t]
                dm == bot_status.messages_processed - r.mp0
                de == bot_status.errors - r.err0
            IN  /\ bot_status.images_processed = r.ip0
                /\ r.sends # <<>>
                /\ IF r.exit # "except" /\ r.sends[1].ok
                   THEN dm = 1 /\ de = 0
                   ELSE dm = 0 /\ de = 1

C20_Witness ==
    \E t \in Threads :
        /\ Done(t) /\ Simple /\ th[t].kind = "text" /\ th[t].resp = 200
        /\ ~th[t].sends[1].ok
        /\ th[t].mp0 = 1
        /\ bot_status.messages_processed = 1
        /\ bot_status.errors = th[t].err0 + 1

\* C21: in simple_app.py's photo handler, once remove_background has
\* returned a processed file, the confirmation line is among the reply's
\* sections only if the processed photo was sent successfully, the
\* processed file is gone when the handler is over whether or not that send
\* succeeded, and the confirmation line and the failure line are never
\* both among the sections of one reply.
C21_ConfirmationOnlyAfterSend ==
    \A t \in Threads :
        Simple /\ th[t].kind = "photo" /\ th[t].res.bg = "ok" =>
            LET r == th[t] IN
            /\ <<"bg_done">> \in Range(r.parts) =>
                   \E i \in 1..Len(r.sends) :
                       r.sends[i].type = "photo" /\ r.sends[i].ok
            /\ Done(t) => r.processed \notin files
            /\ ~(<<"bg_done">> \in Range(r.parts) /\ <<"bg_failed">> \in Range(r.parts))

=============================================================================
